---- MODULE Spec2Model ----
(***************************************************************************)
(* Model of scdlpicker: the real-time client (scdlpicker-client.py), its   *)
(* per-event workspaces, the pending-event queue, the file based exchange  *)
(* of repicker results, its waveform requests and its single-event mode;   *)
(* dbutil.loadPicksForOrigin; and the relocator                            *)
(* (scdlpicker-relocate-event.py).                                         *)
(*                                                                         *)
(* Times are integers: origin times and the clock in hours, predicted      *)
(* arrival times in seconds.  Distances are whole degrees.                 *)
(***************************************************************************)
EXTENDS Integers, Sequences, FiniteSets, TLC

VARIABLES
    workspaces,      \* App.workspaces: eventID -> EventWorkspace
    pendingEvents,   \* App.pendingEvents: eventID -> event object
    outgoing,        \* result files present in outgoingDir
    sent,            \* result files present in sentDir
    prefOrigin,      \* catalog: preferred origin ID of every event
    now,             \* wall clock (hours)
    pc,              \* position of the control loop inside handleTimeout
    drainQueue,      \* sorted(pendingEvents.keys()) not yet iterated
    passKind,        \* how the most recent processEvent call ended
    tickLog,         \* duties performed so far by the running handleTimeout
    notified,        \* valid notifications per event since it was last processed
    pubCount,        \* per file: number of successful sends of its picks
    sendFailed,      \* files for which a send was rejected at least once
    offered,         \* files handed to sendRepickerResults by the latest poll
    call             \* a library call: its arguments and, once made, its result

appVars == <<workspaces, pendingEvents, outgoing, sent, prefOrigin, now, pc,
             drainQueue, passKind, tickLog, notified, pubCount, sendFailed,
             offered>>

vars == <<workspaces, pendingEvents, outgoing, sent, prefOrigin, now, pc,
          drainQueue, passKind, tickLog, notified, pubCount, sendFailed,
          offered, call>>

(***************************************************************************)
(* Bounds of the model                                                     *)
(***************************************************************************)
MaxFiles == 2        \* result files the repicker writes
MaxNotif == 2        \* notifications counted per event between two calls
MaxClock == 45       \* the clock stops advancing here (hours)
ClockStep == 15      \* granularity of the clock (hours)
PubCap == 2          \* pubCount saturates here ("more than once")
MaxArr == 4          \* arrivals of an origin handed to the distance limit
MaxCands == 2        \* picks the database returns for the time span

Files == 1..MaxFiles

None == "None"

\* no library call is being looked at
NoCall == [op |-> "none"]

(***************************************************************************)
(* Module level parameters of scdlpicker-client.py                         *)
(***************************************************************************)
ignoredAuthors == {}
emptyOriginAgencyIDs == {}             \* the module level list
cfgIgnoredAgencyIDs == {"XX"}          \* self.ignoredAgencyIDs
cfgEmptyOriginAgencyIDs == {"TRUSTED"} \* self.emptyOriginAgencyIDs
RepickMethodIDs == {"DL", "PhaseNet", "PHN", "EQTransformer", "EQT", "XYZ"}
AppAuthor == "scdlpicker@host"      \* self.author()
author == "dlpicker"                \* author set by sendRepickerResults
repickManualPicks == FALSE          \* self.pickingConfig.repickManualPicks
tryUpickedStations == TRUE          \* self.pickingConfig.tryUpickedStations
CleanupTimeout == 30                \* cleanup(timeout=30*3600), in hours
TeleseismicThreshold == 40
TeleseismicLimit == 105
NoDistance == -1                    \* arr.distance() raises ValueError

(***************************************************************************)
(* The catalog, the inventory and the bindings the client runs against     *)
(***************************************************************************)
Events == {"e1", "e2", "e3"}
KnownEvents == {"e1", "e2"}         \* events the catalog can load

WfId(sta, cha) == <<"GE", sta, "", cha>>

CatPick(n, sta, cha, man, meth, auth) ==
    [id |-> <<"cat", n, WfId(sta, cha)>>, wf |-> WfId(sta, cha), manual |-> man,
     methodID |-> meth, author |-> auth]

p1 == CatPick(1, "S1", "BHZ", FALSE, "AIC", "scautopick")
p2 == CatPick(2, "S1", "BHZ", FALSE, "AIC", "scautopick")
p3 == CatPick(3, "S2", "BHZ", TRUE, "", "analyst")
p4 == CatPick(4, "S3", "BHZ", FALSE, "AIC", "scautopick")
p5 == CatPick(5, "S2", "BHZ", FALSE, "DL", author)
\* a pick published by sendRepickerResults; its method ID comes from the
\* result file and is not one of the IDs isRepick knows
p6 == CatPick(6, "S4", "BHZ", FALSE, "ML", author)

CatalogPicks == {p1, p2, p3, p4, p5, p6}

\* picks the repicker returns results for
ResultPicks == {p1}

Arr(p, w, d) == [pick |-> p, weight |-> w, distance |-> d]

\* weight in tenths; distance in degrees
Origins ==
    [o1 |-> [id |-> "o1", agencyID |-> "GFZ", time |-> 0, depth |-> 10,
             arrivals |-> <<Arr(p1, 10, 10), Arr(p3, 10, 20)>>],
     o2 |-> [id |-> "o2", agencyID |-> "GFZ", time |-> 0, depth |-> 10,
             arrivals |-> <<Arr(p2, 10, 42), Arr(p1, 10, 45), Arr(p4, 10, 50),
                            Arr(p5, 0, 60)>>],
     o3 |-> [id |-> "o3", agencyID |-> "GFZ", time |-> 0, depth |-> 10,
             arrivals |-> <<>>],
     o4 |-> [id |-> "o4", agencyID |-> "GFZ", time |-> 15, depth |-> 10,
             arrivals |-> <<Arr(p3, 10, 5), Arr(p5, 10, 8), Arr(p6, 0, 80)>>],
     o5 |-> [id |-> "o5", agencyID |-> "XX", time |-> 15, depth |-> 10,
             arrivals |-> <<Arr(p3, 10, 5)>>]]

OriginIDs == DOMAIN Origins
MissingOrigin == "oX"               \* an origin ID the catalog cannot load

EventOrigins ==
    [e \in Events |->
        IF e = "e1" THEN {"o1", "o2", "o3", MissingOrigin}
        ELSE IF e = "e2" THEN {"o4", "o5"} ELSE {None}]

\* inventory streams in iteration order
InventoryStreams ==
    << <<"GE", "S1", "", "BHZ">>, <<"GE", "S1", "", "BHN">>,
       <<"GE", "S1", "", "BHE">>, <<"GE", "S2", "", "BHZ">>,
       <<"GE", "S2", "", "BHN">>, <<"GE", "S2", "", "BHE">>,
       <<"GE", "S3", "", "BHZ">>, <<"GE", "S3", "", "BHN">>,
       <<"GE", "S4", "", "BHZ">>, <<"GE", "S4", "", "BHN">>,
       <<"GE", "S4", "", "BHE">>, <<"GE", "S5", "", "BHZ">> >>

configuredStreams ==
    { <<"GE", "S1", "--", "BH">>, <<"GE", "S2", "--", "BH">>,
      <<"GE", "S3", "--", "BH">>, <<"GE", "S4", "--", "BH">> }

\* cha[:2] and cha + "Z"
Band(cha) == IF cha \in {"BHZ", "BHN", "BHE", "BH"} THEN "BH" ELSE "HH"
Vertical(band) == IF band = "BH" THEN "BHZ" ELSE "HHZ"

\* seiscomp.math.delazi(elat, elon, slat, slon)[0]
Delta(o, sta) ==
    CASE o = "o2" ->
           (CASE sta = "S1" -> 45 [] sta = "S2" -> 60 [] sta = "S3" -> 50
              [] sta = "S4" -> 70 [] OTHER -> 30)
      [] o \in {"o4", "o5"} ->
           (CASE sta = "S1" -> 9 [] sta = "S2" -> 5 [] sta = "S3" -> 30
              [] sta = "S4" -> 80 [] OTHER -> 6)
      [] OTHER ->
           (CASE sta = "S1" -> 10 [] sta = "S2" -> 20 [] sta = "S3" -> 12
              [] sta = "S4" -> 60 [] OTHER -> 30)

\* first entry of TravelTimeTable.compute, seconds
FirstArrivalTime(delta, depth) == 10 * delta + depth

(***************************************************************************)
(* EventWorkspace and the pick selection of App.processOrigin              *)
(***************************************************************************)
EmptyDict == [k \in {} |-> k]

EventWorkspace ==
    [event |-> None, origin |-> None, all_picks |-> EmptyDict,
     new_picks |-> EmptyDict, attempted_picks |-> EmptyDict,
     mlpicks |-> {}]

\* d[k] = v on a dict
Put(d, k, v) == (k :> v) @@ d

isRepick(pick, ownAuthor) ==
    \/ pick.methodID \in RepickMethodIDs
    \/ pick.author # "" /\ pick.author = ownAuthor

manual(pick) == pick.manual

\* query.getPicks(originID), filtered as in getAssociatedPicksForOrigin
RECURSIVE AssociatedOf(_)
AssociatedOf(arrivals) ==
    IF arrivals = << >> THEN << >>
    ELSE LET pick == Head(arrivals).pick
             rest == AssociatedOf(Tail(arrivals))
         IN IF pick.author = "" \/ pick.author \in ignoredAuthors
            THEN rest ELSE <<pick>> \o rest

getAssociatedPicksForOrigin(originID) ==
    AssociatedOf(Origins[originID].arrivals)

\* variant: the comparison of waveform IDs is left out
WaveformNeverAttempted(w, pick) == FALSE

WaveformAttempted(w, pick) ==
    \E q \in DOMAIN w.attempted_picks : w.attempted_picks[q].wf = pick.wf

\* variant: attempted_picks is started afresh with the pick
AddNewPickForgetting(w, pick) ==
    [w EXCEPT !.new_picks = Put(@, pick.id, pick),
              !.attempted_picks = Put(EmptyDict, pick.id, pick)]

\* variant: the pick is put into new_picks only
AddNewPickUnrecorded(w, pick) ==
    [w EXCEPT !.new_picks = Put(@, pick.id, pick)]

AddNewPick(w, pick) ==
    [w EXCEPT !.new_picks = Put(@, pick.id, pick),
              !.attempted_picks = Put(@, pick.id, pick)]

\* variant: earlier attempts are looked up in new_picks, which every pass
\* clears, instead of attempted_picks
OfferAssociatedLookingAtNewPicks(w, pick) ==
    LET wa == IF pick.id \notin DOMAIN w.all_picks
              THEN [w EXCEPT !.all_picks = Put(@, pick.id, pick)] ELSE w
    IN  IF manual(pick) /\ ~repickManualPicks THEN wa
        ELSE IF pick.id \in DOMAIN wa.new_picks THEN wa
        ELSE IF isRepick(pick, AppAuthor) THEN wa
        ELSE IF \E q \in DOMAIN wa.new_picks : wa.new_picks[q].wf = pick.wf
             THEN wa
        ELSE AddNewPick(wa, pick)

\* variant: manual picks are offered like automatic ones
OfferAssociatedRepickingManual(w, pick) ==
    LET wa == IF pick.id \notin DOMAIN w.all_picks
              THEN [w EXCEPT !.all_picks = Put(@, pick.id, pick)] ELSE w
    IN  IF pick.id \in DOMAIN wa.attempted_picks THEN wa
        ELSE IF isRepick(pick, AppAuthor) THEN wa
        ELSE IF WaveformAttempted(wa, pick) THEN wa
        ELSE AddNewPick(wa, pick)

\* variant: the pick offered replaces the pick stored under its ID
OfferAssociatedOverwriting(w, pick) ==
    LET wa == [w EXCEPT !.all_picks = Put(@, pick.id, pick)]
    IN  IF manual(pick) /\ ~repickManualPicks THEN wa
        ELSE IF pick.id \in DOMAIN wa.attempted_picks THEN wa
        ELSE IF isRepick(pick, AppAuthor) THEN wa
        ELSE IF WaveformAttempted(wa, pick) THEN wa
        ELSE AddNewPick(wa, pick)

\* one iteration of the loop over associated_picks
OfferAssociated(w, pick) ==
    LET wa == IF pick.id \notin DOMAIN w.all_picks
              THEN [w EXCEPT !.all_picks = Put(@, pick.id, pick)] ELSE w
    IN  IF manual(pick) /\ ~repickManualPicks THEN wa
        \* a pick found in workspace.mlpicks is logged and falls through
        ELSE IF pick.id \in DOMAIN wa.attempted_picks THEN wa
        ELSE IF isRepick(pick, AppAuthor) THEN wa
        ELSE IF WaveformAttempted(wa, pick) THEN wa
        ELSE AddNewPick(wa, pick)

RECURSIVE AssociatedLoop(_, _)
AssociatedLoop(w, picks) ==
    IF picks = << >> THEN w
    ELSE AssociatedLoop(OfferAssociated(w, Head(picks)), Tail(picks))

(***************************************************************************)
(* Adaptive distance limit of App.processOrigin.  A mean is kept as the    *)
(* pair sum/count; count 0 is the nan numpy.average gives for no data.     *)
(***************************************************************************)
RECURSIVE InsertSorted(_, _)
InsertSorted(seq, x) ==
    IF seq = << >> THEN <<x>>
    ELSE IF x <= Head(seq) THEN <<x>> \o seq
    ELSE <<Head(seq)>> \o InsertSorted(Tail(seq), x)

RECURSIVE SortAscending(_)
SortAscending(seq) ==
    IF seq = << >> THEN << >> ELSE InsertSorted(SortAscending(Tail(seq)), Head(seq))

RECURSIVE SumSeq(_)
SumSeq(seq) == IF seq = << >> THEN 0 ELSE Head(seq) + SumSeq(Tail(seq))

\* seq[-n:]
LastN(seq, n) ==
    IF Len(seq) <= n THEN seq ELSE SubSeq(seq, Len(seq) - n + 1, Len(seq))

\* variant: arrivals of low weight are taken too
RECURSIVE DistancesOfAll(_)
DistancesOfAll(arrivals) ==
    IF arrivals = << >> THEN << >>
    ELSE IF Head(arrivals).distance = NoDistance
         THEN DistancesOfAll(Tail(arrivals))
    ELSE <<Head(arrivals).distance>> \o DistancesOfAll(Tail(arrivals))

RECURSIVE UsedDistances(_)
UsedDistances(arrivals) ==
    IF arrivals = << >> THEN << >>
    ELSE IF Head(arrivals).weight < 5 THEN UsedDistances(Tail(arrivals))
    ELSE IF Head(arrivals).distance = NoDistance
         THEN UsedDistances(Tail(arrivals))
    ELSE <<Head(arrivals).distance>> \o UsedDistances(Tail(arrivals))

Degrees(d) == [num |-> d, den |-> 1]

\* a > b on floats; false when either is nan
Greater(a, b) == a.den > 0 /\ b.den > 0 /\ a.num * b.den > b.num * a.den

maxDeltaOf(origin) ==
    IF origin.agencyID \in emptyOriginAgencyIDs THEN Degrees(TeleseismicLimit)
    ELSE LET delta == LastN(SortAscending(UsedDistances(origin.arrivals)), 3)
             avg == [num |-> SumSeq(delta), den |-> Len(delta)]
         IN  IF Greater(avg, Degrees(TeleseismicThreshold))
             THEN Degrees(TeleseismicLimit) ELSE avg

(***************************************************************************)
(* App.findUnpickedStations                                                *)
(***************************************************************************)
\* seiscomp.datamodel.Pick.Find: object registration is disabled in run()
PickFind(pickID) == FALSE

PredictedPick(origin, net, sta, loc, cha) ==
    LET delta == Delta(origin.id, sta)
        time == origin.time * 3600 + FirstArrivalTime(delta, origin.depth)
    IN  [id |-> <<"PRE", time, <<net, sta, loc, cha>> >>,
         wf |-> <<net, sta, loc, Vertical(cha)>>,
         manual |-> FALSE, methodID |-> "", author |-> ""]

NetStaBlacklist(picks) ==
    { <<picks[k].wf[1], picks[k].wf[2]>> : k \in DOMAIN picks }

RECURSIVE PredictLoop(_, _, _, _, _)
PredictLoop(streams, origin, maxDelta, blacklist, predictedPicks) ==
    IF streams = << >> THEN predictedPicks
    ELSE LET net == Head(streams)[1]
             sta == Head(streams)[2]
             loc == Head(streams)[3]
             cha == Band(Head(streams)[4])
             pick == PredictedPick(origin, net, sta, loc, cha)
             skip == \/ <<net, sta>> \in blacklist
                     \/ <<net, sta, IF loc = "" THEN "--" ELSE loc, cha>>
                            \notin configuredStreams
                     \/ Greater(Degrees(Delta(origin.id, sta)), maxDelta)
                     \/ PickFind(pick.id)
                     \/ pick.id \in DOMAIN predictedPicks
         IN  PredictLoop(Tail(streams), origin, maxDelta, blacklist,
                         IF skip THEN predictedPicks
                         ELSE Put(predictedPicks, pick.id, pick))

findUnpickedStations(origin, maxDelta, picks) ==
    PredictLoop(InventoryStreams, origin, maxDelta, NetStaBlacklist(picks),
                EmptyDict)

(***************************************************************************)
(* App.processOrigin                                                       *)
(***************************************************************************)
\* one iteration of the loop over predictedPicks
OfferPredicted(w, pick) ==
    IF pick.id \in DOMAIN w.all_picks THEN w
    ELSE LET wa == [w EXCEPT !.all_picks = Put(@, pick.id, pick)]
         IN  IF pick.id \in DOMAIN wa.attempted_picks THEN wa
             ELSE AddNewPick(wa, pick)

\* the loop visits the keys of predictedPicks; its iterations add distinct
\* keys and read none of each other's additions
RECURSIVE PredictedLoop(_, _, _)
PredictedLoop(w, predictedPicks, todo) ==
    IF todo = {} THEN w
    ELSE LET k == CHOOSE x \in todo : TRUE
         IN  PredictedLoop(OfferPredicted(w, predictedPicks[k]),
                           predictedPicks, todo \ {k})

\* variant: new_picks is kept from the pass before
KeepNewPicks(w) == w

ClearNewPicks(w) == [w EXCEPT !.new_picks = EmptyDict]

OriginIgnored(origin) == origin.agencyID \in cfgIgnoredAgencyIDs

\* variant: an origin without arrivals is processed like any other
NeverEmpty(origin) == FALSE

OriginEmpty(origin) ==
    /\ Len(origin.arrivals) = 0
    /\ origin.agencyID \notin cfgEmptyOriginAgencyIDs

\* the workspace after the loop over the associated picks
AfterAssociated(w, origin) ==
    AssociatedLoop(ClearNewPicks([w EXCEPT !.origin = origin.id]),
                   getAssociatedPicksForOrigin(origin.id))

\* predictedPicks, for the workspace after the loop over the associated picks
PredictedFor(w2, origin) ==
    findUnpickedStations(origin, maxDeltaOf(origin), w2.all_picks)

\* result: the workspace after the call and how the call ended
processOrigin(w, origin) ==
    IF OriginIgnored(origin) THEN [w |-> w, kind |-> "ignored"]
    ELSE IF OriginEmpty(origin) THEN [w |-> w, kind |-> "empty"]
    ELSE LET w2 == AfterAssociated(w, origin)
             predictedPicks == PredictedFor(w2, origin)
             w3 == IF tryUpickedStations
                   THEN PredictedLoop(w2, predictedPicks, DOMAIN predictedPicks)
                   ELSE w2
         IN  [w |-> w3, kind |-> "processed"]

(***************************************************************************)
(* App.processEvent and App.cleanup                                        *)
(***************************************************************************)
Without(d, k) == [x \in DOMAIN d \ {k} |-> d[x]]

\* variant: the preferred origin always counts as changed
AlwaysChanged(w, originID) == FALSE

\* the workspace holds an origin and it is the preferred origin
NoChangeOfPreferredOrigin(w, originID) ==
    w.origin # None /\ originID = w.origin

\* everything processEvent does before it calls cleanup
processEvent(ws, e, pref) ==
    LET ws1 == IF e \in DOMAIN ws THEN ws ELSE Put(ws, e, EventWorkspace)
        loaded == e \in KnownEvents
        ws2 == [ws1 EXCEPT ![e].event = IF loaded THEN e ELSE None]
        originID == pref[e]
    IN  IF ~loaded THEN [ws |-> ws2, kind |-> "raised"]
        ELSE IF NoChangeOfPreferredOrigin(ws2[e], originID)
             THEN [ws |-> ws2, kind |-> "nochange"]
        ELSE IF originID \notin OriginIDs THEN [ws |-> ws2, kind |-> "raised"]
        ELSE LET r == processOrigin(ws2[e], Origins[originID])
             IN  [ws |-> [ws2 EXCEPT ![e] = r.w], kind |-> r.kind]

\* variant: a workspace at the edge of the retention window is dropped too
ExpiredAtEdge(ws, t) ==
    { e \in DOMAIN ws : Origins[ws[e].origin].time <= t - CleanupTimeout }

CleanupRaises(ws) == \E e \in DOMAIN ws : ws[e].origin = None

Expired(ws, t) ==
    { e \in DOMAIN ws : Origins[ws[e].origin].time < t - CleanupTimeout }

cleanup(ws, t) == [e \in DOMAIN ws \ Expired(ws, t) |-> ws[e]]

(***************************************************************************)
(* The exchange of repicker results: App.pollRepickerResults               *)
(***************************************************************************)
\* variant: the rename into sentDir is left out
RenamedNone(found, ok) == {}

\* variant: every file found is renamed, whatever the send returned
RenamedAll(found, ok) == found

\* files renamed into sentDir by a poll that found `found` in outgoingDir
\* and whose sendRepickerResults returned True for `ok`
Renamed(found, ok) == found \cap ok

\* variant: a file whose send was rejected is removed from outgoingDir
LeftNone(found, ok) == {}

\* files left in outgoingDir by that poll
LeftOutgoing(found, ok) == found \ Renamed(found, ok)

Min(a, b) == IF a <= b THEN a ELSE b

pollRepickerResults ==
    \E ok \in SUBSET outgoing :
        /\ offered' = outgoing
        /\ outgoing' = LeftOutgoing(outgoing, ok)
        /\ sent' = sent \cup Renamed(outgoing, ok)
        /\ pubCount' = [f \in Files |->
                           IF f \in ok THEN Min(pubCount[f] + 1, PubCap)
                           ELSE pubCount[f]]
        /\ sendFailed' = sendFailed \cup (outgoing \ ok)

FilesUnchanged == UNCHANGED <<outgoing, sent, pubCount, sendFailed, offered>>

(***************************************************************************)
(* The control loop: handleTimeout, processPendingEvents                   *)
(***************************************************************************)
EventOrder == <<"e1", "e2", "e3">>

InDomain(d, e) == e \in DOMAIN d

\* variant: only the first pending event is taken per tick
FirstKey(d) ==
    LET all == SelectSeq(EventOrder, LAMBDA e : InDomain(d, e))
    IN  IF all = << >> THEN all ELSE <<Head(all)>>

\* sorted(d.keys())
SortedKeys(d) == SelectSeq(EventOrder, LAMBDA e : InDomain(d, e))

AppInit ==
    /\ workspaces = EmptyDict
    /\ pendingEvents = EmptyDict
    /\ outgoing = {}
    /\ sent = {}
    /\ prefOrigin = [e \in Events |->
                        IF e = "e1" THEN "o1" ELSE IF e = "e2" THEN "o4" ELSE None]
    /\ now = ClockStep
    /\ pc = "idle"
    /\ drainQueue = << >>
    /\ passKind = "none"
    /\ tickLog = << >>
    /\ notified = [e \in Events |-> 0]
    /\ pubCount = [f \in Files |-> 0]
    /\ sendFailed = {}
    /\ offered = {}

Init == AppInit /\ call = NoCall

\* variant: an entry already queued for the event is kept
StoreEventIfAbsent(pending, e, obj) ==
    IF e \in DOMAIN pending THEN pending ELSE Put(pending, e, obj)

\* self.pendingEvents[event.publicID()] = event
StoreEvent(pending, e, obj) == Put(Without(pending, e), e, obj)

\* self.pendingEvents.pop(eventID): the queue that is left
PopEvent(pending, e) == Without(pending, e)

\* handleTimeout up to the first iteration of processPendingEvents
HandleTimeout ==
    /\ pc = "idle"
    /\ pollRepickerResults
    /\ drainQueue' = SortedKeys(pendingEvents)
    /\ IF pendingEvents = EmptyDict
       THEN pc' = "idle" /\ tickLog' = << >>
       ELSE pc' = "process" /\ tickLog' = <<"poll">>
    /\ passKind' = "none"
    /\ UNCHANGED <<workspaces, pendingEvents, prefOrigin, now, notified>>
    /\ UNCHANGED call

\* the handler is left: normally, or by an exception
LeaveHandler ==
    /\ pc' = "idle"
    /\ drainQueue' = << >>
    /\ tickLog' = << >>

\* one iteration of processPendingEvents: pop, then processEvent
ProcessNext ==
    /\ pc = "process"
    /\ LET e == Head(drainQueue)
           r == processEvent(workspaces, e, prefOrigin)
       IN  /\ pendingEvents' = PopEvent(pendingEvents, e)
           /\ notified' = [notified EXCEPT ![e] = 0]
           /\ workspaces' = r.ws
           /\ passKind' = r.kind
           /\ IF r.kind = "raised" THEN LeaveHandler
              ELSE /\ pc' = IF r.kind = "nochange" THEN "poll" ELSE "cleanup"
                   /\ drainQueue' = Tail(drainQueue)
                   /\ tickLog' = Append(tickLog, e)
    /\ FilesUnchanged
    /\ UNCHANGED <<prefOrigin, now>>
    /\ UNCHANGED call

\* the cleanup call that ends processEvent
Cleanup ==
    /\ pc = "cleanup"
    /\ IF CleanupRaises(workspaces)
       THEN /\ LeaveHandler
            /\ passKind' = "raised"
            /\ UNCHANGED workspaces
       ELSE /\ workspaces' = cleanup(workspaces, now)
            /\ pc' = "poll"
            /\ UNCHANGED <<drainQueue, tickLog, passKind>>
    /\ FilesUnchanged
    /\ UNCHANGED <<pendingEvents, prefOrigin, now, notified>>
    /\ UNCHANGED call

\* variant: the loop goes on to the next event without polling
NoPollAfter ==
    /\ pc = "poll"
    /\ IF drainQueue = << >>
       THEN LeaveHandler
       ELSE /\ pc' = "process"
            /\ UNCHANGED <<drainQueue, tickLog>>
    /\ FilesUnchanged
    /\ UNCHANGED <<workspaces, pendingEvents, prefOrigin, now, passKind,
                   notified>>
    /\ UNCHANGED call

\* the poll that follows every processEvent call
PollAfter ==
    /\ pc = "poll"
    /\ pollRepickerResults
    /\ IF drainQueue = << >>
       THEN LeaveHandler
       ELSE /\ pc' = "process"
            /\ tickLog' = Append(tickLog, "poll")
            /\ UNCHANGED drainQueue
    /\ UNCHANGED <<workspaces, pendingEvents, prefOrigin, now, passKind,
                   notified>>
    /\ UNCHANGED call

\* addObject / updateObject: a notification for one of the events E arrives
\* from the message bus; the event object is numbered within its batch
Notify(E) ==
    /\ pc = "idle"
    /\ \E e \in E, valid \in BOOLEAN :
        IF valid /\ notified[e] < MaxNotif
        THEN /\ notified' = [notified EXCEPT ![e] = @ + 1]
             /\ pendingEvents' = StoreEvent(pendingEvents, e, notified[e] + 1)
        ELSE UNCHANGED <<notified, pendingEvents>>
    /\ FilesUnchanged
    /\ UNCHANGED <<workspaces, prefOrigin, now, pc, drainQueue, passKind,
                   tickLog>>
    /\ UNCHANGED call

AddObject == Notify(Events)

AddObjectKnown == Notify(KnownEvents)

(***************************************************************************)
(* The environment                                                         *)
(***************************************************************************)
\* the repicker writes a result file into outgoingDir
FileAppears ==
    /\ \E f \in Files \ (outgoing \cup sent) :
        /\ pubCount[f] = 0
        /\ outgoing' = outgoing \cup {f}
    /\ UNCHANGED <<workspaces, pendingEvents, sent, prefOrigin, now, pc,
                   drainQueue, passKind, tickLog, notified, pubCount,
                   sendFailed, offered>>
    /\ UNCHANGED call

\* the catalog names another preferred origin for an event
UpdatePreferredOrigin ==
    /\ pc = "idle"
    /\ \E e \in KnownEvents : \E o \in EventOrigins[e] :
        /\ o # prefOrigin[e]
        /\ prefOrigin' = [prefOrigin EXCEPT ![e] = o]
    /\ FilesUnchanged
    /\ UNCHANGED <<workspaces, pendingEvents, now, pc, drainQueue, passKind,
                   tickLog, notified>>
    /\ UNCHANGED call

AdvanceClock ==
    /\ pc = "idle"
    /\ now + ClockStep <= MaxClock
    /\ now' = now + ClockStep
    /\ FilesUnchanged
    /\ UNCHANGED <<workspaces, pendingEvents, prefOrigin, pc, drainQueue,
                   passKind, tickLog, notified>>
    /\ UNCHANGED call

\* the process is stopped and started again: the files stay, memory is lost
Restart ==
    /\ workspaces' = EmptyDict
    /\ pendingEvents' = EmptyDict
    /\ notified' = [e \in Events |-> 0]
    /\ passKind' = "none"
    /\ LeaveHandler
    /\ FilesUnchanged
    /\ UNCHANGED <<prefOrigin, now>>
    /\ UNCHANGED call

\* a repick result for a pick is registered in the workspace of an event
RegisterRepickResult ==
    /\ pc = "idle"
    /\ \E e \in DOMAIN workspaces : \E p \in ResultPicks :
        /\ p.id \notin workspaces[e].mlpicks
        /\ workspaces' = [workspaces EXCEPT ![e].mlpicks = @ \cup {p.id}]
    /\ FilesUnchanged
    /\ UNCHANGED <<pendingEvents, prefOrigin, now, pc, drainQueue, passKind,
                   tickLog, notified>>
    /\ UNCHANGED call

\* the control loop and the result exchange, against a catalog at rest
NextLoop ==
    \/ HandleTimeout
    \/ ProcessNext
    \/ Cleanup
    \/ PollAfter
    \/ AddObject
    \/ FileAppears
    \/ Restart

SpecLoop == Init /\ [][NextLoop]_vars

\* the control loop and the workspaces, against a changing catalog
NextWorkspace ==
    \/ HandleTimeout
    \/ ProcessNext
    \/ Cleanup
    \/ PollAfter
    \/ AddObjectKnown
    \/ UpdatePreferredOrigin
    \/ AdvanceClock
    \/ RegisterRepickResult
    \/ Restart

SpecWorkspace == Init /\ [][NextWorkspace]_vars

\* the control loop of a process that keeps running, against a changing
\* catalog
NextTicks ==
    \/ HandleTimeout
    \/ ProcessNext
    \/ Cleanup
    \/ PollAfter
    \/ AddObjectKnown
    \/ UpdatePreferredOrigin

\* the timer keeps firing and a handler that was entered runs until it
\* returns or raises.  ProcessNext is enabled exactly where pc = "process"
\* and every ProcessNext step leaves that position, so weak fairness of
\* ProcessNext is stated as: the position is left again and again.
SpecTicks ==
    /\ Init
    /\ [][NextTicks]_vars
    /\ WF_vars(HandleTimeout)
    /\ []<>(pc # "process")
    /\ WF_vars(Cleanup)
    /\ WF_vars(PollAfter)

(***************************************************************************)
(* The distance limit of App.processOrigin, computed for any origin        *)
(***************************************************************************)
ArrivalWeights == {4, 5}
ArrivalDistances == {30, 35, 38, 42, 45, 50, NoDistance}

SeqsUpTo(S, n) == UNION { [1..m -> S] : m \in 0..n }

ArrivalLists ==
    SeqsUpTo({ Arr(p1, w, d) : w \in ArrivalWeights, d \in ArrivalDistances },
             MaxArr)

InitMaxDelta ==
    /\ AppInit
    /\ \E arrivals \in ArrivalLists :
          call = [op |-> "maxDelta",
                  origin |-> [id |-> "o", agencyID |-> "GFZ", time |-> 0,
                              depth |-> 10, arrivals |-> arrivals],
                  done |-> FALSE,
                  maxDelta |-> Degrees(0)]

\* the statements of processOrigin that assign maxDelta
ComputeMaxDelta ==
    /\ call.op = "maxDelta"
    /\ ~call.done
    /\ call' = [call EXCEPT !.done = TRUE, !.maxDelta = maxDeltaOf(call.origin)]
    /\ UNCHANGED appVars

NextMaxDelta == ComputeMaxDelta

SpecMaxDelta == InitMaxDelta /\ [][NextMaxDelta]_vars

(***************************************************************************)
(* dbutil.loadPicksForOrigin.  Pick times and residuals are whole seconds, *)
(* creation times are ticks of the clock that stamps the picks.            *)
(***************************************************************************)
maxResidual == 2
allowedAuthorIDs == {"dlpicker"}

\* station[n, s]: distance of the stations of the inventory from the origin
StationDelta == [S1 |-> 20, S2 |-> 50, S3 |-> 60]

\* ttimes[0].time for a distance
PTime(delta) == 5 * delta

\* _util.nslc(pick)
nslc(pick) == pick.wf

\* a pick the database holds for the time span
DbPick(i, sta, resid, ctime, auth) ==
    [id |-> <<"dl", i>>, wf |-> WfId(sta, "BHZ"),
     time |-> PTime(StationDelta[sta]) + resid, ctime |-> ctime,
     manual |-> FALSE, author |-> auth]

\* picks associated with the origin in the database
m1 == [id |-> <<"man", 1>>, wf |-> WfId("S1", "BHZ"), time |-> 100,
       ctime |-> 0, manual |-> TRUE, author |-> "analyst"]
m2 == [id |-> <<"man", 2>>, wf |-> WfId("S2", "BHZ"), time |-> 400,
       ctime |-> 0, manual |-> TRUE, author |-> "analyst"]
x1 == [id |-> <<"aut", 1>>, wf |-> WfId("S2", "BHZ"), time |-> 250,
       ctime |-> 0, manual |-> FALSE, author |-> "scautopick"]

\* query.getPicks(origin.publicID())
associated_picks == (m1.id :> m1) @@ (m2.id :> m2) @@ (x1.id :> x1)

DbArrival(pick, phase) == [pickID |-> pick.id, phase |-> phase, weight |-> 10]

\* loadPicksForTimespan: the picks of the allowed authors, in query order
loadPicksForTimespan(dbPicks, allowed) ==
    SelectSeq(dbPicks, LAMBDA pick : pick.author \in allowed)

\* variant: the bounds belong to the window
InClosedWindow(dt, half) == -half <= dt /\ dt <= half

\* -half < dt < half
InWindow(dt, half) == -half < dt /\ dt < half

\* dt of a pick at a station of the inventory
Residual(origin, pick) ==
    pick.time - (origin.time + PTime(StationDelta[pick.wf[2]]))

OfInterest(origin, maxDelta, pick) ==
    /\ pick.wf[2] \in DOMAIN StationDelta
    /\ ~(StationDelta[pick.wf[2]] > maxDelta)
    /\ InWindow(Residual(origin, pick), 4 * maxResidual)

picks_of_interest(origin, maxDelta, picks) ==
    SelectSeq(picks, LAMBDA pick : OfInterest(origin, maxDelta, pick))

\* variant: every pick is put into a group of its own
nslcWithPickID(pick) == <<pick.wf, pick.id>>

\* the key under which picks_per_nslc files a pick
GroupKey(pick) == nslc(pick)

\* keys of picks_per_nslc in the order of their insertion
RECURSIVE GroupKeys(_, _)
GroupKeys(picks, seen) ==
    IF picks = << >> THEN << >>
    ELSE IF GroupKey(Head(picks)) \in seen THEN GroupKeys(Tail(picks), seen)
    ELSE <<GroupKey(Head(picks))>>
           \o GroupKeys(Tail(picks), seen \cup {GroupKey(Head(picks))})

Front(seq) == SubSeq(seq, 1, Len(seq) - 1)
Last(seq) == seq[Len(seq)]

RECURSIVE InsertByCreation(_, _)
InsertByCreation(seq, pick) ==
    IF seq = << >> THEN <<pick>>
    ELSE IF Last(seq).ctime <= pick.ctime THEN Append(seq, pick)
    ELSE Append(InsertByCreation(Front(seq), pick), Last(seq))

\* variant: the list is left in the order of the input
NotSorted(seq) == seq

\* sorted(picks, key=creation time): stable
RECURSIVE SortedByCreation(_)
SortedByCreation(seq) ==
    IF seq = << >> THEN << >>
    ELSE InsertByCreation(SortedByCreation(Front(seq)), Last(seq))

\* picks_per_nslc[key] after the sort
picks_per_nslc(picks, key) ==
    SortedByCreation(SelectSeq(picks, LAMBDA pick : GroupKey(pick) = key))

\* _util.clearAutomaticArrivals: the arrivals of manual picks stay
clearAutomaticArrivals(arrivals) ==
    SelectSeq(arrivals, LAMBDA arr : associated_picks[arr.pickID].manual)

\* variant: no stream is blocked
NoStreamPhases(arrivals) == {}

stream_phase_list(arrivals) ==
    { <<associated_picks[arrivals[i].pickID].wf, arrivals[i].phase>> :
        i \in DOMAIN arrivals }

\* one iteration of the loop over picks_per_nslc: the arrivals afterwards
Attach(origin, maxDelta, blocked, arrivals, pick) ==
    IF <<pick.wf, "P">> \in blocked THEN arrivals
    ELSE IF pick.wf[2] \notin DOMAIN StationDelta THEN arrivals
    ELSE IF StationDelta[pick.wf[2]] > maxDelta THEN arrivals
    ELSE IF ~InWindow(Residual(origin, pick), 2 * maxResidual) THEN arrivals
    ELSE Append(arrivals, DbArrival(pick, "P"))

RECURSIVE AttachLoop(_, _, _, _, _, _)
AttachLoop(origin, maxDelta, blocked, arrivals, picks, keys) ==
    IF keys = << >> THEN arrivals
    ELSE AttachLoop(origin, maxDelta, blocked,
                    Attach(origin, maxDelta, blocked, arrivals,
                           picks_per_nslc(picks, Head(keys))[1]),
                    picks, Tail(keys))

\* result: the arrivals of the origin and, per group, the pick taken
loadPicksForOrigin(origin, maxDelta, dbPicks) ==
    LET picks == picks_of_interest(origin, maxDelta,
                     loadPicksForTimespan(dbPicks, allowedAuthorIDs))
        keys == GroupKeys(picks, {})
        kept == clearAutomaticArrivals(origin.arrivals)
        blocked == stream_phase_list(kept)
    IN  [arrivals |-> AttachLoop(origin, maxDelta, blocked, kept, picks, keys),
         chosen |-> [i \in DOMAIN keys |-> picks_per_nslc(picks, keys[i])[1]]]

\* the calls looked at: the picks of the time span in every order, with and
\* without manual arrivals at the origin
LoadMaxDelta == 50
Residuals ==
    {-2 * maxResidual, 1 - 2 * maxResidual, 2 * maxResidual, 4 * maxResidual}
CreationTimes == {1, 2}

\* the picks of the time span in query order; a pick is named after its place
DbPickLists ==
    UNION { { [i \in 1..m |->
                 DbPick(i, f[i][1], f[i][2], f[i][3], "dlpicker")] :
              f \in [1..m -> (DOMAIN StationDelta) \X Residuals \X CreationTimes] } :
            m \in 0..MaxCands }

DbArrivalLists ==
    { <<DbArrival(x1, "P")>> \o a \o b :
        a \in {<< >>, <<DbArrival(m1, "P")>>},
        b \in {<< >>, <<DbArrival(m2, "S")>>} }

InitLoadPicks ==
    /\ AppInit
    /\ \E dbPicks \in DbPickLists, arrivals \in DbArrivalLists :
          call = [op |-> "loadPicksForOrigin",
                  origin |-> [time |-> 0, arrivals |-> arrivals],
                  maxDelta |-> LoadMaxDelta,
                  dbPicks |-> dbPicks,
                  done |-> FALSE,
                  result |-> [arrivals |-> arrivals, chosen |-> << >>]]

LoadPicksForOrigin ==
    /\ call.op = "loadPicksForOrigin"
    /\ ~call.done
    /\ call' = [call EXCEPT
                  !.done = TRUE,
                  !.result = loadPicksForOrigin(call.origin, call.maxDelta,
                                                call.dbPicks)]
    /\ UNCHANGED appVars

NextLoadPicks == LoadPicksForOrigin

SpecLoadPicks == InitLoadPicks /\ [][NextLoadPicks]_vars

(***************************************************************************)
(* dbutil.loadPicksForOrigin with the argument keepManualPicks.  The name  *)
(* stream_phase_list is assigned in the branch for keepManualPicks only    *)
(* and read in every iteration of the loop over picks_per_nslc.            *)
(***************************************************************************)
\* _util.clearAllArrivals(origin)
clearAllArrivals(arrivals) == << >>

\* the loop over picks_per_nslc reads a name that was never assigned
StreamPhaseListUnbound(keepManualPicks, keys) ==
    ~keepManualPicks /\ keys # << >>

\* result: whether the call raised, the arrivals of the origin at that
\* moment and, per group, the pick taken
loadPicksForOriginKeeping(origin, maxDelta, dbPicks, keepManualPicks) ==
    LET picks == picks_of_interest(origin, maxDelta,
                     loadPicksForTimespan(dbPicks, allowedAuthorIDs))
        keys == GroupKeys(picks, {})
        kept == IF keepManualPicks
                THEN clearAutomaticArrivals(origin.arrivals)
                ELSE clearAllArrivals(origin.arrivals)
    IN  IF StreamPhaseListUnbound(keepManualPicks, keys)
        THEN [raised |-> TRUE, arrivals |-> kept, chosen |-> << >>]
        ELSE [raised |-> FALSE,
              arrivals |-> AttachLoop(origin, maxDelta,
                               IF keepManualPicks THEN stream_phase_list(kept)
                               ELSE {},
                               kept, picks, keys),
              chosen |-> [i \in DOMAIN keys |->
                            picks_per_nslc(picks, keys[i])[1]]]

InitKeepManual ==
    /\ AppInit
    /\ \E dbPicks \in DbPickLists, arrivals \in DbArrivalLists,
          keepManualPicks \in BOOLEAN :
          call = [op |-> "loadPicksForOriginKeeping",
                  origin |-> [time |-> 0, arrivals |-> arrivals],
                  maxDelta |-> LoadMaxDelta,
                  dbPicks |-> dbPicks,
                  keepManualPicks |-> keepManualPicks,
                  done |-> FALSE,
                  result |-> [raised |-> FALSE, arrivals |-> arrivals,
                              chosen |-> << >>]]

LoadPicksForOriginKeeping ==
    /\ call.op = "loadPicksForOriginKeeping"
    /\ ~call.done
    /\ call' = [call EXCEPT
                  !.done = TRUE,
                  !.result = loadPicksForOriginKeeping(
                                 call.origin, call.maxDelta, call.dbPicks,
                                 call.keepManualPicks)]
    /\ UNCHANGED appVars

NextKeepManual == LoadPicksForOriginKeeping

SpecKeepManual == InitKeepManual /\ [][NextKeepManual]_vars

(***************************************************************************)
(* App.findUnpickedStations, called for any origin, distance limit and     *)
(* set of existing picks, and called again with the same arguments.  The   *)
(* travel-time table is an input: it has entries up to a distance and      *)
(* gives an empty list beyond.                                             *)
(***************************************************************************)
\* numpy.average of an empty list
NaN == [num |-> 0, den |-> 0]

\* App.computeTravelTimes against a table tabulated up to `table` degrees
computeTravelTimes(table, delta, depth) ==
    IF delta > table THEN << >> ELSE <<FirstArrivalTime(delta, depth)>>

\* the streams for which the loop reaches arrivals[0]
ReachesFirstArrival(origin, maxDelta, picks) ==
    { i \in DOMAIN InventoryStreams :
        LET net == InventoryStreams[i][1]
            sta == InventoryStreams[i][2]
            loc == InventoryStreams[i][3]
            cha == Band(InventoryStreams[i][4])
        IN  /\ <<net, sta>> \notin NetStaBlacklist(picks)
            /\ <<net, sta, IF loc = "" THEN "--" ELSE loc, cha>>
                  \in configuredStreams
            /\ ~Greater(Degrees(Delta(origin.id, sta)), maxDelta) }

\* arrivals[0] of an empty list: IndexError
FindUnpickedRaises(origin, maxDelta, picks, table) ==
    \E i \in ReachesFirstArrival(origin, maxDelta, picks) :
        computeTravelTimes(table, Delta(origin.id, InventoryStreams[i][2]),
                           origin.depth) = << >>

\* the distance limits processOrigin passes: a mean, the teleseismic limit,
\* or nan for an origin without used arrivals
PredictLimits ==
    { Degrees(d) : d \in {10, 20, 50, TeleseismicLimit} } \cup {NaN}

\* tables that end before and beyond the farthest station
TableRanges == {15, 180}

DictOf(S) == [k \in { pick.id : pick \in S } |->
                 CHOOSE pick \in S : pick.id = k]

ExistingPickSets == { DictOf(S) : S \in SUBSET CatalogPicks }

InitPredict ==
    /\ AppInit
    /\ \E o \in OriginIDs, maxDelta \in PredictLimits,
          picks \in ExistingPickSets, table \in TableRanges :
          call = [op |-> "findUnpickedStations",
                  origin |-> Origins[o],
                  maxDelta |-> maxDelta,
                  picks |-> picks,
                  table |-> table,
                  runs |-> 0,
                  raised |-> FALSE,
                  first |-> EmptyDict,
                  second |-> EmptyDict]

FindUnpickedStations ==
    /\ call.op = "findUnpickedStations"
    /\ call.runs = 0
    /\ LET raises == FindUnpickedRaises(call.origin, call.maxDelta,
                                        call.picks, call.table)
       IN  call' = [call EXCEPT
                      !.runs = 1,
                      !.raised = raises,
                      !.first = IF raises THEN EmptyDict
                                ELSE findUnpickedStations(call.origin,
                                         call.maxDelta, call.picks)]
    /\ UNCHANGED appVars

\* the same call once more, the picks of the first call still alive
FindUnpickedStationsAgain ==
    /\ call.op = "findUnpickedStations"
    /\ call.runs = 1
    /\ ~call.raised
    /\ call' = [call EXCEPT
                  !.runs = 2,
                  !.second = findUnpickedStations(call.origin, call.maxDelta,
                                                  call.picks)]
    /\ UNCHANGED appVars

NextPredict == FindUnpickedStations \/ FindUnpickedStationsAgain

SpecPredict == InitPredict /\ [][NextPredict]_vars

(***************************************************************************)
(* Calls that meet the end of the travel-time table: findUnpickedStations  *)
(* as above, and dbutil.loadPicksForOrigin with a table as input.          *)
(***************************************************************************)
\* ttt.compute(0, 0, edep, 0, delta, 0, 0) against a table tabulated up to
\* `table` degrees
ttimes(table, delta) == IF delta > table THEN << >> ELSE <<PTime(delta)>>

\* ptime = ttimes[0] of an empty list in the loop over the picks of the time
\* span: IndexError.  The loop over picks_per_nslc reads ttimes[0] only for
\* picks that went through this loop.
LoadRaises(origin, maxDelta, dbPicks, table) ==
    LET picks == loadPicksForTimespan(dbPicks, allowedAuthorIDs)
    IN  \E i \in DOMAIN picks :
            /\ picks[i].wf[2] \in DOMAIN StationDelta
            /\ ~(StationDelta[picks[i].wf[2]] > maxDelta)
            /\ ttimes(table, StationDelta[picks[i].wf[2]]) = << >>

LoadTableRanges == {30, 180}

\* picks on time at the stations of the inventory, in query order
OnTimePickLists ==
    UNION { { [i \in 1..m |-> DbPick(i, f[i], 0, a[i], "dlpicker")] :
              f \in [1..m -> DOMAIN StationDelta],
              a \in [1..m -> CreationTimes] } :
            m \in 0..MaxCands }

InitLoadTable ==
    /\ AppInit
    /\ \E dbPicks \in OnTimePickLists, table \in LoadTableRanges :
          call = [op |-> "loadPicksWithTable",
                  origin |-> [time |-> 0, arrivals |-> <<DbArrival(x1, "P")>>],
                  maxDelta |-> LoadMaxDelta,
                  dbPicks |-> dbPicks,
                  table |-> table,
                  done |-> FALSE,
                  raised |-> FALSE,
                  result |-> [arrivals |-> <<DbArrival(x1, "P")>>,
                              chosen |-> << >>]]

LoadPicksWithTable ==
    /\ call.op = "loadPicksWithTable"
    /\ ~call.done
    /\ LET raises == LoadRaises(call.origin, call.maxDelta, call.dbPicks,
                                call.table)
       IN  call' = [call EXCEPT
                      !.done = TRUE,
                      !.raised = raises,
                      !.result = IF raises THEN @
                                 ELSE loadPicksForOrigin(call.origin,
                                          call.maxDelta, call.dbPicks)]
    /\ UNCHANGED appVars

InitTravelTime == InitPredict \/ InitLoadTable

NextTravelTime ==
    \/ FindUnpickedStations
    \/ FindUnpickedStationsAgain
    \/ LoadPicksWithTable

SpecTravelTime == InitTravelTime /\ [][NextTravelTime]_vars

(***************************************************************************)
(* processEvent calls for one event with the waveforms of its workspace:   *)
(* App._loadWaveformsForPicks, the dump and the three-component filter of  *)
(* App.processOrigin.  workspace.waveforms is kept beside the record of    *)
(* the pick dictionaries.  A stream ID is <<net, sta, loc, cha>>; the      *)
(* records of a stream are taken by their largest inter-record gap, in     *)
(* hundredths of a second.                                                 *)
(***************************************************************************)
MaxPasses == 2

\* tolerance=1. of the gap test
Tolerance == 100

Streams == { InventoryStreams[i] : i \in DOMAIN InventoryStreams }

Comp(cha) ==
    CASE cha = "BHN" -> "N" [] cha = "BHE" -> "E" [] OTHER -> "Z"

\* cha[:2] + comp
Channel(band, comp) ==
    CASE comp = "N" -> "BHN" [] comp = "E" -> "BHE" [] OTHER -> Vertical(band)

Dashed(loc) == IF loc = "" THEN "--" ELSE loc
Undashed(loc) == IF loc = "--" THEN "" ELSE loc

\* self.components: the component codes the inventory has for a stream group
components ==
    [k \in { <<st[1], st[2], Dashed(st[3]), Band(st[4])>> : st \in Streams } |->
        SelectSeq(<<"Z", "N", "E">>,
                  LAMBDA c : <<k[1], k[2], Undashed(k[3]), Channel(k[4], c)>>
                                \in Streams)]

\* the stream key of a pick: location "--" for "", channel with "Z" added
\* to a two-letter code
RequestKey(pick) ==
    <<pick.wf[1], pick.wf[2], Dashed(pick.wf[3]),
      IF pick.wf[4] = Band(pick.wf[4]) THEN Vertical(pick.wf[4])
      ELSE pick.wf[4]>>

\* request: the keys of the picks without a file on disk and with components
Request(picks, disk) ==
    { RequestKey(picks[k]) : k \in
        { j \in DOMAIN picks :
            /\ RequestKey(picks[j]) \notin disk
            /\ <<RequestKey(picks[j])[1], RequestKey(picks[j])[2],
                 RequestKey(picks[j])[3], Band(RequestKey(picks[j])[4])>>
                  \in DOMAIN components } }

\* the streams added to the record stream for a request
AddedStreams(request) ==
    UNION { { <<n[1], n[2], Undashed(n[3]), Channel(Band(n[4]), c)>> :
                c \in { components[<<n[1], n[2], n[3], Band(n[4])>>][i] :
                          i \in DOMAIN components[<<n[1], n[2], n[3],
                                                    Band(n[4])>>] } } :
            n \in request }

\* what the waveform server holds for the streams of a station
StationKinds == {"full", "gapN", "nearN", "noE"}

HasRecords(server, streamID) ==
    ~(server[streamID[2]] = "noE" /\ Comp(streamID[4]) = "E")

RecordGap(server, streamID) ==
    IF Comp(streamID[4]) # "N" THEN 0
    ELSE IF server[streamID[2]] = "gapN" THEN Tolerance + 1
    ELSE IF server[streamID[2]] = "nearN" THEN Tolerance - 1
    ELSE 0

\* _util.gappy(records, tolerance)
gappy(gap, tolerance) == gap > tolerance

\* the last loop of _loadWaveformsForPicks: the gappy streams are logged
GappyLogged(waveforms) == waveforms

\* result: the request and the waveforms returned
loadWaveformsForPicks(picks, disk, server) ==
    LET request == Request(picks, disk)
        received == { x \in AddedStreams(request) : HasRecords(server, x) }
    IN  [request |-> request,
         waveforms |-> GappyLogged([x \in received |-> RecordGap(server, x)])]

\* for streamID in waveforms: workspace.waveforms[streamID] = ...
Merge(old, new) ==
    [x \in DOMAIN old \cup DOMAIN new |->
        IF x \in DOMAIN new THEN new[x] ELSE old[x]]

\* workspace.dump: one waveform file per stream of the workspace
dump(disk, waveforms) ==
    disk \cup { <<x[1], x[2], Dashed(x[3]), x[4]>> : x \in DOMAIN waveforms }

\* streamIDs[(net, sta, loc)]
StreamIDsOf(waveforms, nsl) ==
    { x \in DOMAIN waveforms : <<x[1], x[2], x[3]>> = nsl }

\* variant: no stream is deleted
KeepIncomplete(waveforms) == waveforms

\* the streams of the groups with fewer than 3 stream IDs are deleted
DeleteIncomplete(waveforms) ==
    [x \in { y \in DOMAIN waveforms :
               ~(Cardinality(StreamIDsOf(waveforms, <<y[1], y[2], y[3]>>)) < 3) }
        |-> waveforms[x]]

\* the statements of processOrigin on workspace.waveforms; requests lists
\* the request of every _loadWaveformsForPicks call
processOriginWaveforms(w, origin, waveforms, disk, server) ==
    IF OriginIgnored(origin) \/ OriginEmpty(origin)
    THEN [waveforms |-> waveforms, disk |-> disk, requests |-> << >>,
          dumped |-> waveforms]
    ELSE LET w2 == AfterAssociated(w, origin)
             first == loadWaveformsForPicks(w2.new_picks, disk, server)
             again == tryUpickedStations /\ PredictedFor(w2, origin) # EmptyDict
             second == loadWaveformsForPicks(processOrigin(w, origin).w.new_picks,
                                             disk, server)
             loaded == IF again
                       THEN Merge(Merge(waveforms, first.waveforms),
                                  second.waveforms)
                       ELSE Merge(waveforms, first.waveforms)
         IN  [waveforms |-> DeleteIncomplete(loaded),
              disk |-> dump(disk, loaded),
              requests |-> IF again THEN <<first.request, second.request>>
                           ELSE <<first.request>>,
              dumped |-> loaded]

\* the requests of a pass, each with the number of the pass
Numbered(n, requests) ==
    [i \in DOMAIN requests |-> [pass |-> n, request |-> requests[i]]]

InitPass ==
    /\ AppInit
    /\ \E e \in KnownEvents, server \in [{"S1", "S2", "S3", "S4"} -> StationKinds] :
          call = [op |-> "processEvent",
                  event |-> e,
                  server |-> server,
                  workspaces |-> EmptyDict,
                  waveforms |-> EmptyDict,
                  disk |-> {},
                  n |-> 0,
                  preferred |-> None,
                  kind |-> "none",
                  requests |-> << >>,
                  history |-> << >>,
                  dumped |-> EmptyDict]

\* processEvent for the event of the call, the catalog naming any of its
\* origins as the preferred one
ProcessEventCall ==
    /\ call.op = "processEvent"
    /\ call.n < MaxPasses
    /\ \E o \in EventOrigins[call.event] :
        LET e == call.event
            r == processEvent(call.workspaces, e, (e :> o))
            ran == r.kind \in {"ignored", "empty", "processed"}
            wf == IF ran
                  THEN processOriginWaveforms(
                           IF e \in DOMAIN call.workspaces
                           THEN call.workspaces[e] ELSE EventWorkspace,
                           Origins[o], call.waveforms, call.disk, call.server)
                  ELSE [waveforms |-> call.waveforms, disk |-> call.disk,
                        requests |-> << >>, dumped |-> call.waveforms]
        IN  call' = [call EXCEPT
                       !.n = @ + 1,
                       !.preferred = o,
                       !.kind = IF ran /\ CleanupRaises(r.ws)
                                THEN "raised" ELSE r.kind,
                       !.workspaces = IF ran /\ ~CleanupRaises(r.ws)
                                      THEN cleanup(r.ws, now) ELSE r.ws,
                       !.waveforms = wf.waveforms,
                       !.disk = wf.disk,
                       !.requests = wf.requests,
                       !.history = @ \o Numbered(call.n + 1, wf.requests),
                       !.dumped = wf.dumped]
    /\ UNCHANGED appVars

NextPass == ProcessEventCall

SpecPass == InitPass /\ [][NextPass]_vars

(***************************************************************************)
(* Single-event mode: App.testEvent.  The catalog holds any set of origins *)
(* for the event; the exit request (isExitRequested) may arrive at any     *)
(* moment of the run.                                                      *)
(***************************************************************************)
\* the origins in the order of creationInfo().creationTime()
CreationOrder == <<"o1", "o2", "o3", "o4", "o5">>

\* sorted_origins: the origins of the event that have arrivals
sorted_origins(catalog) ==
    SelectSeq(CreationOrder,
              LAMBDA o : o \in catalog /\ Len(Origins[o].arrivals) # 0)

\* variant: the exit request is never seen
ExitNeverSeen(c) == FALSE

\* self.isExitRequested()
isExitRequested(c) == c.exitRequested

InitTestEvent ==
    /\ AppInit
    /\ \E e \in Events, catalog \in SUBSET OriginIDs :
          call = [op |-> "testEvent",
                  event |-> e,
                  catalog |-> catalog,
                  pc |-> "start",
                  queue |-> << >>,
                  current |-> None,
                  w |-> EventWorkspace,
                  processed |-> << >>,
                  dumped |-> << >>,
                  exitRequested |-> FALSE,
                  begunAtRequest |-> 0,
                  observed |-> FALSE,
                  result |-> "none"]

\* testEvent up to the loop over sorted_origins
TestEventStart ==
    /\ call.op = "testEvent"
    /\ call.pc = "start"
    /\ IF call.event \notin KnownEvents
       THEN call' = [call EXCEPT !.pc = "done", !.result = "False"]
       ELSE call' = [call EXCEPT
                       !.pc = "loop",
                       !.w = [EventWorkspace EXCEPT !.event = call.event],
                       !.queue = sorted_origins(call.catalog)]
    /\ UNCHANGED appVars

\* the head of the loop: the next origin is taken unless exit is requested
TestEventNext ==
    /\ call.op = "testEvent"
    /\ call.pc = "loop"
    /\ IF call.queue = << >>
       THEN call' = [call EXCEPT !.pc = "done", !.result = "True"]
       ELSE IF isExitRequested(call)
       THEN call' = [call EXCEPT !.pc = "done", !.result = "True",
                                 !.observed = TRUE]
       ELSE call' = [call EXCEPT !.pc = "processOrigin",
                                 !.current = Head(call.queue),
                                 !.queue = Tail(call.queue)]
    /\ UNCHANGED appVars

\* self.processOrigin(origin, event)
TestEventProcessOrigin ==
    /\ call.op = "testEvent"
    /\ call.pc = "processOrigin"
    /\ call' = [call EXCEPT
                  !.pc = "dump",
                  !.w = processOrigin(call.w, Origins[call.current]).w,
                  !.processed = Append(@, call.current)]
    /\ UNCHANGED appVars

\* workspace.dump(self.eventRootDir)
TestEventDump ==
    /\ call.op = "testEvent"
    /\ call.pc = "dump"
    /\ call' = [call EXCEPT
                  !.pc = "loop",
                  !.dumped = Append(@, [origin |-> call.current, w |-> call.w])]
    /\ UNCHANGED appVars

\* the exit request arrives (a signal); begunAtRequest notes how many
\* origins had been taken from the list by then
RequestExit ==
    /\ call.op = "testEvent"
    /\ call.pc # "done"
    /\ ~call.exitRequested
    /\ call' = [call EXCEPT
                  !.exitRequested = TRUE,
                  !.begunAtRequest = Len(call.processed)
                        + (IF call.pc = "processOrigin" THEN 1 ELSE 0)]
    /\ UNCHANGED appVars

NextTestEvent ==
    \/ TestEventStart
    \/ TestEventNext
    \/ TestEventProcessOrigin
    \/ TestEventDump
    \/ RequestExit

SpecTestEvent == InitTestEvent /\ [][NextTestEvent]_vars

(***************************************************************************)
(* The relocator: RelocatorApp.run and RelocatorApp.processEvent           *)
(* (scdlpicker-relocate-event.py).  The event IDs of the command line, the *)
(* test option and the events for which relocation gives a result are      *)
(* inputs.                                                                 *)
(***************************************************************************)
MaxEventIDs == 3

\* the attributes RelocatorApp assigns in __init__, init and run
RelocatorAttributes ==
    {"allowedAuthorIDs", "inventory", "author", "agencyID", "fixedDepth"}

\* the attributes processEvent reads
AttributesRead ==
    {"inventory", "allowedAuthorIDs", "maxDelta", "fixedDepth",
     "minimumDepth", "maxResidual", "author", "agencyID"}

\* how processEvent ends for an event: "raised" for an exception, "none"
\* when relocation gave no result, "test" when the message was built and
\* not sent, "sent" when it was handed to the connection
RelocatorProcessEvent(eventID, test, relocatable) ==
    IF eventID \notin KnownEvents THEN "raised"
    ELSE IF ~(AttributesRead \subseteq RelocatorAttributes) THEN "raised"
    ELSE IF eventID \notin relocatable THEN "none"
    ELSE IF test THEN "test"
    ELSE "sent"

InitRelocator ==
    /\ AppInit
    /\ \E eventIDs \in SeqsUpTo(Events, MaxEventIDs), test \in BOOLEAN,
          relocatable \in SUBSET Events :
          call = [op |-> "relocator",
                  eventIDs |-> eventIDs,
                  test |-> test,
                  relocatable |-> relocatable,
                  next |-> 1,
                  outcome |-> << >>,
                  sent |-> << >>,
                  result |-> "none"]

\* one iteration of the loop of run: self.processEvent(eventID)
RelocatorNext ==
    /\ call.op = "relocator"
    /\ call.result = "none"
    /\ call.next <= Len(call.eventIDs)
    /\ LET eventID == call.eventIDs[call.next]
           kind == RelocatorProcessEvent(eventID, call.test, call.relocatable)
       IN  call' = [call EXCEPT
                      !.next = @ + 1,
                      !.outcome = Append(@, kind),
                      !.sent = IF kind = "sent" THEN Append(@, eventID) ELSE @,
                      !.result = IF kind = "raised" THEN "raised" ELSE @]
    /\ UNCHANGED appVars

\* the loop is through: return True
RelocatorReturn ==
    /\ call.op = "relocator"
    /\ call.result = "none"
    /\ call.next > Len(call.eventIDs)
    /\ call' = [call EXCEPT !.result = "True"]
    /\ UNCHANGED appVars

NextRelocator == RelocatorNext \/ RelocatorReturn

SpecRelocator == InitRelocator /\ [][NextRelocator]_vars

(***************************************************************************)
(* Properties of the workspaces                                            *)
(***************************************************************************)
Keys(d) == DOMAIN d

\* the step is a processEvent call that ran processOrigin to its end
PassRan == pc = "process" /\ passKind' = "processed"

\* the step is a processEvent call whose processOrigin skipped the origin
PassSkipped == pc = "process" /\ passKind' \in {"ignored", "empty"}

\* the step is a processEvent call
CallStep == pc = "process" /\ passKind' # "none"

\* the workspace the call works on, as it was before the call
Before == IF Head(drainQueue) \in DOMAIN workspaces
          THEN workspaces[Head(drainQueue)] ELSE EventWorkspace

\* ... and as the call leaves it
After == workspaces'[Head(drainQueue)]

C2_OneAttemptPerWaveform ==
    \A e \in DOMAIN workspaces :
        \A a, b \in Keys(workspaces[e].attempted_picks) :
            a # b => workspaces[e].attempted_picks[a].wf
                        # workspaces[e].attempted_picks[b].wf

\* a pick was offered whose waveform ID is that of an attempted pick with
\* another ID, and it was recorded in all_picks only
C2_Witness ==
    \E e \in DOMAIN workspaces :
        \E a \in Keys(workspaces[e].attempted_picks) :
            \E b \in Keys(workspaces[e].all_picks) :
                /\ a # b
                /\ b \notin Keys(workspaces[e].attempted_picks)
                /\ workspaces[e].all_picks[b].wf
                      = workspaces[e].attempted_picks[a].wf
                /\ ~manual(workspaces[e].all_picks[b])
                /\ ~isRepick(workspaces[e].all_picks[b], AppAuthor)

\* C9: a pass does not add to new_picks or to attempted_picks an associated
\* pick for which mlpicks held a repick result when the pass started.
C9_RepickedPickSkipped ==
    [][PassRan =>
        \A k \in Before.mlpicks :
            /\ k \notin Keys(After.new_picks)
            /\ k \in Keys(After.attempted_picks)
                  => k \in Keys(Before.attempted_picks)]_vars

\* C10 as stated: after every processOrigin call, skipped ones included,
\* new_picks holds no pick the workspace knew before the call.
C10_EveryCallLeavesOnlyFreshPicks ==
    [][PassRan \/ PassSkipped
         => Keys(After.new_picks) \cap Keys(Before.all_picks) = {}]_vars

\* C10, amended: after every processOrigin call that does not skip the
\* origin, new_picks holds only picks first seen in that call.
C10_PassLeavesOnlyFreshPicks ==
    [][PassRan => Keys(After.new_picks) \cap Keys(Before.all_picks) = {}]_vars

\* a second pass over a workspace has run and left picks of its own in
\* new_picks, none of the picks of the first pass
C10_Witness ==
    /\ pc = "cleanup"
    /\ passKind = "processed"
    /\ \E e \in DOMAIN workspaces :
        /\ Keys(workspaces[e].new_picks) # {}
        /\ Keys(workspaces[e].attempted_picks)
              \ Keys(workspaces[e].new_picks) # {}

\* C11: attempted_picks only grows while a workspace lives: in every step
\* that keeps the workspace, every entry of attempted_picks is still there
\* afterwards, with the pick it held.
C11_AttemptedOnlyGrows ==
    [][\A e \in DOMAIN workspaces \cap DOMAIN workspaces' :
         \A k \in Keys(workspaces[e].attempted_picks) :
            /\ k \in Keys(workspaces'[e].attempted_picks)
            /\ workspaces'[e].attempted_picks[k]
                  = workspaces[e].attempted_picks[k]]_vars

\* a pass has added a pick to the attempts an earlier pass left
C11_Witness ==
    /\ pc = "cleanup"
    /\ passKind = "processed"
    /\ \E e \in DOMAIN workspaces :
          /\ workspaces[e].origin = "o2"
          /\ workspaces[e].new_picks # EmptyDict
          /\ Cardinality(Keys(workspaces[e].attempted_picks))
                > Cardinality(Keys(workspaces[e].new_picks)) + 1

\* C12: with repickManualPicks off, no manual pick is ever in new_picks or
\* attempted_picks, and every manual associated pick of a pass is in
\* all_picks after the pass.
C12_ManualNeverOffered ==
    /\ [](~repickManualPicks =>
            \A e \in DOMAIN workspaces :
               /\ \A k \in Keys(workspaces[e].new_picks) :
                     ~manual(workspaces[e].new_picks[k])
               /\ \A k \in Keys(workspaces[e].attempted_picks) :
                     ~manual(workspaces[e].attempted_picks[k]))
    /\ [][PassRan /\ ~repickManualPicks =>
            LET assoc == getAssociatedPicksForOrigin(After.origin)
            IN  \A i \in DOMAIN assoc :
                   manual(assoc[i]) =>
                      /\ assoc[i].id \in Keys(After.all_picks)
                      /\ assoc[i].id \notin Keys(After.new_picks)
                      /\ assoc[i].id \notin Keys(After.attempted_picks)]_vars

\* a pass over an origin with a manual arrival has recorded the manual pick
C12_Witness ==
    /\ pc = "cleanup"
    /\ passKind = "processed"
    /\ \E e \in DOMAIN workspaces :
          /\ workspaces[e].origin \in {"o1", "o4"}
          /\ p3.id \in Keys(workspaces[e].all_picks)
          /\ p3.id \notin Keys(workspaces[e].attempted_picks)

\* C13: no pick that is a product of re-picking, by its method ID or by
\* carrying the author this module gives the picks it publishes, is ever
\* in new_picks or attempted_picks.
C13_RepickProductNeverOffered ==
    \A e \in DOMAIN workspaces :
       \A k \in Keys(workspaces[e].attempted_picks) :
          LET pick == workspaces[e].attempted_picks[k]
          IN  ~(pick.methodID \in RepickMethodIDs \/ pick.author = author)

\* a pick object with the ID of p and other content
Restamped(p) == [p EXCEPT !.author = "other"]

\* C14: offering a pick whose ID is a key of all_picks, as an associated or
\* as a predicted pick, leaves all_picks as it was: the same keys and the
\* same stored picks; a pass changes no entry all_picks had.
C14_ReinsertionIsNoOp ==
    /\ [](\A e \in DOMAIN workspaces :
            LET w == workspaces[e]
            IN  \A k \in Keys(w.all_picks) :
                   \A q \in {w.all_picks[k], Restamped(w.all_picks[k])} :
                      /\ OfferAssociated(w, q).all_picks = w.all_picks
                      /\ OfferPredicted(w, q).all_picks = w.all_picks)
    /\ [][CallStep =>
            \A k \in Keys(Before.all_picks) :
               /\ k \in Keys(After.all_picks)
               /\ After.all_picks[k] = Before.all_picks[k]]_vars

\* a pass has offered picks that an earlier pass had put into all_picks
C14_Witness ==
    /\ pc = "cleanup"
    /\ passKind = "processed"
    /\ \E e \in DOMAIN workspaces :
          /\ workspaces[e].origin = "o1"
          /\ {p1.id, p2.id} \subseteq Keys(workspaces[e].all_picks)
          /\ \E k \in Keys(workspaces[e].all_picks) : k[1] = "PRE"

\* origin time of the workspace of e is before the retention window
OutsideWindow(e) ==
    /\ workspaces[e].origin # None
    /\ Origins[workspaces[e].origin].time < now - CleanupTimeout

\* C15: processEvent registers a workspace for an event that has none; a
\* cleanup that runs to its end removes exactly the workspaces whose origin
\* time is more than the retention window before the current time, and no
\* workspace inside the window is removed while the process runs.
C15_RetentionWindow ==
    [][/\ CallStep => Head(drainQueue) \in DOMAIN workspaces'
       /\ pc = "cleanup" /\ pc' = "poll" =>
             /\ DOMAIN workspaces'
                   = { e \in DOMAIN workspaces : ~OutsideWindow(e) }
             /\ \A e \in DOMAIN workspaces' : workspaces'[e] = workspaces[e]
       /\ \A e \in DOMAIN workspaces \ DOMAIN workspaces' :
             Restart \/ (pc = "cleanup" /\ OutsideWindow(e))]_vars

\* a cleanup has removed the workspace of the event just processed and has
\* kept the workspace of another event
C15_Witness ==
    /\ pc = "poll"
    /\ passKind = "processed"
    /\ tickLog # << >>
    /\ tickLog[Len(tickLog)] = "e1"
    /\ "e1" \notin DOMAIN workspaces
    /\ "e2" \in DOMAIN workspaces

(***************************************************************************)
(* Properties of the result exchange                                       *)
(***************************************************************************)
PollStep == HandleTimeout \/ PollAfter

C4_SentOnlyAfterSuccess ==
    /\ [](\A f \in sent : pubCount[f] >= 1)
    /\ [][\A f \in Files :
            f \notin sent /\ f \in sent'
              => /\ PollStep
                 /\ f \in offered'
                 /\ pubCount'[f] = pubCount[f] + 1]_vars

\* one poll published and moved one file while the send of another was
\* rejected
C4_Witness ==
    \E f, g \in Files :
        /\ {f, g} \subseteq offered
        /\ f \in sent
        /\ g \in outgoing
        /\ pubCount[g] = 0

\* C5: a file whose send is rejected stays in the outgoing directory, and
\* every poll offers every file of the outgoing directory, the rejected
\* ones again; a rejected file leaves outgoing only by a successful send.
C5_RejectedIsRetried ==
    /\ [](\A f \in sendFailed : pubCount[f] = 0 => f \in outgoing)
    /\ [][PollStep =>
            /\ offered' = outgoing
            /\ \A f \in outgoing :
                  pubCount'[f] = pubCount[f] => f \in outgoing']_vars

\* the send of a file was rejected, a later poll offered the file again
\* and published it
C5_Witness == \E f \in sendFailed : f \in sent /\ pubCount[f] = 1

(***************************************************************************)
(* Properties of the control loop                                          *)
(***************************************************************************)
EventsInTick == { i \in DOMAIN tickLog : tickLog[i] # "poll" }

\* C6: all notifications received for an event since it was last processed
\* are held as one entry of pendingEvents, which carries the event object
\* received last; processEvent takes that entry away, so the batch leads to
\* one call.
C6_OneEntryPerEvent ==
    \A e \in Events :
        /\ e \in DOMAIN pendingEvents <=> notified[e] > 0
        /\ e \in DOMAIN pendingEvents => pendingEvents[e] = notified[e]

\* two notifications for one event are waiting as one entry
C6_Witness ==
    \E e \in Events : notified[e] >= 2 /\ pendingEvents[e] = notified[e]

\* C7 as stated: at most one pending event is processed per tick.
C7_OneEventPerTick == Cardinality(EventsInTick) <= 1

\* C7, amended: a tick polls first and then processes the pending events,
\* in ascending order of their IDs, as many as are pending; the handler is
\* left only when no event is pending or when processing an event raised.
C7_TickPollsThenDrains ==
    /\ [](tickLog # << >> => tickLog[1] = "poll")
    /\ [](\A i, j \in EventsInTick :
            i < j => \E m, n \in DOMAIN EventOrder :
                        /\ m < n
                        /\ EventOrder[m] = tickLog[i]
                        /\ EventOrder[n] = tickLog[j])
    /\ [][pc # "idle" /\ pc' = "idle"
            => pendingEvents' = EmptyDict \/ passKind' = "raised"]_vars

\* a tick has processed two events
C7_Witness == Cardinality(EventsInTick) >= 2

\* C8: whenever the loop is about to process a pending event, the duty it
\* performed last was a poll of the result exchange.
C8_PollBetweenEvents ==
    pc = "process" => tickLog # << >> /\ tickLog[Len(tickLog)] = "poll"

\* an event has been processed in this tick, the poll after it has run and
\* the next event is about to be processed
C8_Witness ==
    /\ pc = "process"
    /\ Cardinality(EventsInTick) >= 1
    /\ tickLog[Len(tickLog)] = "poll"

(***************************************************************************)
(* Properties of the distance limit                                        *)
(***************************************************************************)
\* positions of the used arrivals of the origin of the call
UsedArrivals ==
    { i \in DOMAIN call.origin.arrivals :
        /\ call.origin.arrivals[i].weight >= 5
        /\ call.origin.arrivals[i].distance # NoDistance }

RECURSIVE SumOfDistances(_)
SumOfDistances(S) ==
    IF S = {} THEN 0
    ELSE LET i == CHOOSE x \in S : TRUE
         IN  call.origin.arrivals[i].distance + SumOfDistances(S \ {i})

\* S holds the three farthest used arrivals, or all when there are fewer
Farthest(S) ==
    /\ S \subseteq UsedArrivals
    /\ Cardinality(S) = Min(3, Cardinality(UsedArrivals))
    /\ \A i \in S, j \in UsedArrivals \ S :
          call.origin.arrivals[j].distance <= call.origin.arrivals[i].distance

Loaded == call.op = "loadPicksForOrigin" /\ call.done

Range(seq) == { seq[i] : i \in DOMAIN seq }

\* the pick an arrival refers to
PickOfArrival(arr) ==
    IF arr.pickID \in DOMAIN associated_picks
    THEN associated_picks[arr.pickID]
    ELSE CHOOSE pick \in Range(call.dbPicks) : pick.id = arr.pickID

\* positions of the arrivals the call attached
Attached ==
    { i \in DOMAIN call.result.arrivals :
        call.result.arrivals[i].pickID \notin DOMAIN associated_picks }

\* positions of the manual arrivals the call kept
KeptManual ==
    { i \in DOMAIN call.result.arrivals :
        /\ call.result.arrivals[i].pickID \in DOMAIN associated_picks
        /\ PickOfArrival(call.result.arrivals[i]).manual }

\* residual of a pick against the predicted first arrival at its station
Dt(pick) == pick.time - (call.origin.time + 5 * StationDelta[pick.wf[2]])

\* C16: no arrival attached by the call has the waveform ID and the phase
\* code of a manual arrival of the origin.
C16_ManualArrivalBlocks ==
    Loaded =>
        \A i \in Attached, j \in KeptManual :
            ~ /\ PickOfArrival(call.result.arrivals[i]).wf
                   = PickOfArrival(call.result.arrivals[j]).wf
              /\ call.result.arrivals[i].phase = call.result.arrivals[j].phase

\* the origin has a manual P arrival at S1; a pick of S1 with a residual
\* inside the window was not attached, a pick of S2 was
C16_Witness ==
    /\ Loaded
    /\ DbArrival(m1, "P") \in Range(call.origin.arrivals)
    /\ \E pick \in Range(call.dbPicks) :
          pick.wf = m1.wf /\ Dt(pick) = 1 - 2 * maxResidual
    /\ \A i \in Attached : PickOfArrival(call.result.arrivals[i]).wf # m1.wf
    /\ Attached # {}

\* C17: the arrivals attached by the call belong to different channel
\* groups.
C17_OneArrivalPerGroup ==
    Loaded =>
        \A i, j \in Attached :
            i # j => PickOfArrival(call.result.arrivals[i]).wf
                       # PickOfArrival(call.result.arrivals[j]).wf

\* two picks of one channel, both with a residual inside the window, have
\* led to one arrival
C17_Witness ==
    /\ Loaded
    /\ Cardinality(Attached) = 1
    /\ \E a, b \in Range(call.dbPicks) :
          /\ a.id # b.id
          /\ a.wf = b.wf
          /\ Dt(a) = 1 - 2 * maxResidual
          /\ Dt(b) = 1 - 2 * maxResidual

\* the candidates of a channel group: the picks of the allowed authors at
\* a station within maxDelta whose residual is inside the wide window
Candidates(wf) ==
    { pick \in Range(call.dbPicks) :
        /\ pick.wf = wf
        /\ pick.author \in allowedAuthorIDs
        /\ StationDelta[pick.wf[2]] <= call.maxDelta
        /\ -4 * maxResidual < Dt(pick)
        /\ Dt(pick) < 4 * maxResidual }

Earliest(wf) ==
    { pick \in Candidates(wf) :
        \A other \in Candidates(wf) : pick.ctime <= other.ctime }

\* the input picks in every order
Orderings(seq) ==
    { l \in [DOMAIN seq -> Range(seq)] : Range(l) = Range(seq) }

\* the picks chosen for the groups by a call with the picks in order l
ChosenFor(l) ==
    Range(loadPicksForOrigin(call.origin, call.maxDelta, l).chosen)

\* position of a pick in the input
Position(pick) == CHOOSE i \in DOMAIN call.dbPicks : call.dbPicks[i] = pick

\* C18 as stated: the pick chosen for a group is the one created first, and
\* every order of the input picks gives the same choice.
C18_SameChoiceInEveryOrder ==
    Loaded =>
        /\ \A pick \in Range(call.result.chosen) : pick \in Earliest(pick.wf)
        /\ \A l \in Orderings(call.dbPicks) :
              ChosenFor(l) = Range(call.result.chosen)

\* C18, amended: the pick chosen for a group has the earliest creation time
\* of the group; of several picks with that creation time the one that
\* comes first in the input is chosen, so the choice is the same in every
\* order of the input for the groups whose earliest creation time belongs
\* to one pick.
C18_EarliestCreatedFirstInInput ==
    Loaded =>
        /\ \A pick \in Range(call.result.chosen) :
              /\ pick \in Earliest(pick.wf)
              /\ \A other \in Earliest(pick.wf) :
                    Position(pick) <= Position(other)
        /\ \A pick \in Range(call.dbPicks) :
              Candidates(pick.wf) # {} =>
                 \E c \in Range(call.result.chosen) : c.wf = pick.wf
        /\ \A l \in Orderings(call.dbPicks) :
              \A pick \in Range(call.result.chosen) :
                 Cardinality(Earliest(pick.wf)) = 1 => pick \in ChosenFor(l)

\* the pick created first comes second in the input and was chosen
C18_Witness ==
    /\ Loaded
    /\ \E pick \in Range(call.result.chosen) :
          \E other \in Candidates(pick.wf) :
             /\ other.ctime > pick.ctime
             /\ Position(other) < Position(pick)

\* C19: the pick chosen for a group that no manual P arrival blocks, at a
\* station within maxDelta, becomes an arrival exactly when its residual is
\* strictly between -2*maxResidual and 2*maxResidual.
C19_OpenResidualWindow ==
    Loaded =>
        \A pick \in Range(call.result.chosen) :
            (/\ StationDelta[pick.wf[2]] <= call.maxDelta
             /\ \A j \in KeptManual :
                   ~ /\ PickOfArrival(call.result.arrivals[j]).wf = pick.wf
                     /\ call.result.arrivals[j].phase = "P")
            => ((\E i \in Attached : call.result.arrivals[i].pickID = pick.id)
                  <=> (-2 * maxResidual < Dt(pick)
                         /\ Dt(pick) < 2 * maxResidual))

\* a chosen pick with the residual 2*maxResidual was left out and a chosen
\* pick with a residual inside the window was attached
C19_Witness ==
    /\ Loaded
    /\ \E a, b \in Range(call.result.chosen) :
          /\ Dt(a) = 2 * maxResidual
          /\ \A i \in Attached : call.result.arrivals[i].pickID # a.id
          /\ Dt(b) = 1 - 2 * maxResidual
          /\ \E i \in Attached : call.result.arrivals[i].pickID = b.id

(***************************************************************************)
(* Properties of App.findUnpickedStations                                  *)
(***************************************************************************)
\* C21: when findUnpickedStations is run twice with the same origin, the
\* same maxDelta and the same existing picks, the second run returns no
\* pick whose ID the first run has created: such a pick counts as present
\* and is skipped.
C21_SecondRunSkipsExistingIDs ==
    call.op = "findUnpickedStations" /\ call.runs = 2 =>
        Keys(call.second) \cap Keys(call.first) = {}

\* stream of the inventory a predicted pick was made for
StreamOf(pick) ==
    <<pick.id[3][1], pick.id[3][2],
      IF pick.id[3][3] = "" THEN "--" ELSE pick.id[3][3], pick.id[3][4]>>

\* a <= b on floats; false when either is nan
AtMost(a, b) == a.den > 0 /\ b.den > 0 /\ a.num * b.den <= b.num * a.den

\* C30: every predicted pick findUnpickedStations returns is on a stream
\* configured for picking, at a station not farther than maxDelta from the
\* origin, and at a (network, station) without a pick among the existing
\* picks; no two returned picks have the same ID.
C30_PredictedPicksAreWanted ==
    call.op = "findUnpickedStations" /\ call.runs >= 1 =>
        /\ \A k \in Keys(call.first) :
              LET pick == call.first[k]
              IN  /\ pick.id = k
                  /\ StreamOf(pick) \in configuredStreams
                  /\ AtMost(Degrees(Delta(call.origin.id, pick.wf[2])),
                            call.maxDelta)
                  /\ \A j \in Keys(call.picks) :
                        <<call.picks[j].wf[1], call.picks[j].wf[2]>>
                            # <<pick.wf[1], pick.wf[2]>>
        /\ \A k \in Keys(call.first), j \in Keys(call.first) :
              call.first[k].id = call.first[j].id => k = j

(***************************************************************************)
(* Properties of the calls that meet the end of the travel-time table      *)
(***************************************************************************)
\* C26: when the travel-time table gives an empty list for a distance, no
\* error leaves findUnpickedStations or loadPicksForOrigin: the station or
\* pick is skipped and the call completes.
C26_EmptyTravelTimeIsSkipped ==
    /\ call.op = "findUnpickedStations" /\ call.runs >= 1 => ~call.raised
    /\ call.op = "loadPicksWithTable" /\ call.done => ~call.raised

(***************************************************************************)
(* Properties of App.processEvent                                          *)
(***************************************************************************)
\* C25: a processEvent call for an event that cannot be loaded, or whose
\* preferred origin cannot be loaded, does not raise: the event is skipped
\* and the loop of the tick goes on with the pending events that remain.
C25_UnloadableIsSkipped ==
    [][CallStep =>
          /\ passKind' # "raised"
          /\ pc' # "idle"
          /\ drainQueue' = Tail(drainQueue)]_vars

(***************************************************************************)
(* Properties of the waveforms of a workspace                              *)
(***************************************************************************)
\* the workspace of the event of the call, as processEvent finds it
Held == IF call.event \in DOMAIN call.workspaces
        THEN call.workspaces[call.event] ELSE EventWorkspace

\* a processEvent call was made
Called == call.op = "processEvent" /\ call'.n = call.n + 1

\* the stream IDs that share network, station and location with x
GroupOf(waveforms, x) ==
    { y \in DOMAIN waveforms : y[1] = x[1] /\ y[2] = x[2] /\ y[3] = x[3] }

\* C22: a stream with an inter-record gap above the tolerance of 1.0 s is
\* in neither the waveforms _loadWaveformsForPicks returned nor in
\* workspace.waveforms after the pass; a stream whose gaps are within the
\* tolerance is not dropped for its gaps.
C22_GappyStreamDropped ==
    call.op = "processEvent" =>
        /\ \A x \in DOMAIN call.dumped : call.dumped[x] <= Tolerance
        /\ \A x \in DOMAIN call.waveforms : call.waveforms[x] <= Tolerance

\* C23: after every processOrigin pass workspace.waveforms has no
\* (network, station, location) group of fewer than 3 streams, and every
\* stream of a group that had 3 or more streams before the filter is still
\* there with its records.
C23_OnlyCompleteGroups ==
    call.op = "processEvent" =>
        /\ \A x \in DOMAIN call.waveforms :
              Cardinality(GroupOf(call.waveforms, x)) >= 3
        /\ \A x \in DOMAIN call.dumped :
              Cardinality(GroupOf(call.dumped, x)) >= 3
                  => /\ x \in DOMAIN call.waveforms
                     /\ call.waveforms[x] = call.dumped[x]

\* a pass found a group of 2 streams and a group of 3 streams: the first is
\* gone, the second is kept
C23_Witness ==
    /\ call.op = "processEvent"
    /\ call.kind = "processed"
    /\ \E x \in DOMAIN call.dumped :
          /\ Cardinality(GroupOf(call.dumped, x)) = 2
          /\ x \notin DOMAIN call.waveforms
    /\ \E x \in DOMAIN call.waveforms :
          Cardinality(GroupOf(call.waveforms, x)) = 3

\* C28: a processEvent call for an event whose preferred origin is the
\* origin its workspace holds leaves origin, all_picks, new_picks,
\* attempted_picks and waveforms of the workspace as they were and makes no
\* waveform request.
C28_SameOriginIsNoPass ==
    [][/\ Called
       /\ Held.origin # None
       /\ call'.preferred = Held.origin
       => /\ call.event \in DOMAIN call'.workspaces
          /\ call'.workspaces[call.event].origin = Held.origin
          /\ call'.workspaces[call.event].all_picks = Held.all_picks
          /\ call'.workspaces[call.event].new_picks = Held.new_picks
          /\ call'.workspaces[call.event].attempted_picks
                = Held.attempted_picks
          /\ call'.waveforms = call.waveforms
          /\ call'.requests = << >>]_vars

\* the second call came for the origin of the first, the workspace holding
\* new picks and waveforms
C28_Witness ==
    /\ call.op = "processEvent"
    /\ call.n = 2
    /\ call.kind = "nochange"
    /\ call.workspaces[call.event].origin = call.preferred
    /\ call.workspaces[call.event].new_picks # EmptyDict
    /\ call.waveforms # EmptyDict

\* C29: processOrigin for an origin of an ignored agency, or for an origin
\* without arrivals whose agency is not one of emptyOriginAgencyIDs, leaves
\* origin, all_picks, new_picks, attempted_picks and waveforms of the
\* workspace as they were.
C29_SkippedOriginChangesNothing ==
    [][/\ Called
       /\ call'.preferred \in OriginIDs
       /\ call'.preferred # Held.origin
       /\ LET origin == Origins[call'.preferred]
          IN  \/ origin.agencyID \in cfgIgnoredAgencyIDs
              \/ /\ Len(origin.arrivals) = 0
                 /\ origin.agencyID \notin cfgEmptyOriginAgencyIDs
       => /\ call.event \in DOMAIN call'.workspaces
          /\ call'.workspaces[call.event].origin = Held.origin
          /\ call'.workspaces[call.event].all_picks = Held.all_picks
          /\ call'.workspaces[call.event].new_picks = Held.new_picks
          /\ call'.workspaces[call.event].attempted_picks
                = Held.attempted_picks
          /\ call'.waveforms = call.waveforms]_vars

\* a workspace with new picks and waveforms from a first pass was given an
\* origin that is skipped
C29_Witness ==
    /\ call.op = "processEvent"
    /\ call.n = 2
    /\ call.preferred \in {"o3", "o5"}
    /\ call.kind \in {"empty", "ignored"}
    /\ call.workspaces[call.event].origin \notin {None, call.preferred}
    /\ call.workspaces[call.event].new_picks # EmptyDict
    /\ call.waveforms # EmptyDict

(***************************************************************************)
(* Properties of single-event mode                                         *)
(***************************************************************************)
Testing == call.op = "testEvent"

Dumped(o) == \E i \in DOMAIN call.dumped : call.dumped[i].origin = o

\* C24: in single-event mode the exit request is looked at only at the
\* head of the loop, between origins; the origin in work when the request
\* arrives is completed and its workspace dumped before the run can end; no
\* origin is begun after the request has arrived; and the run ends with
\* success.
C24_CoarseCancellation ==
    /\ [][Testing /\ ~call.observed /\ call'.observed => call.pc = "loop"]_vars
    /\ [][Testing /\ call.pc = "processOrigin"
            => call'.pc \in {"processOrigin", "dump"}]_vars
    /\ [][Testing /\ call.pc = "dump" => call'.pc \in {"dump", "loop"}]_vars
    /\ [][Testing /\ call.pc = "dump" /\ call'.pc = "loop"
            => call'.dumped
                  = Append(call.dumped, [origin |-> call.current,
                                         w |-> call.w])]_vars
    /\ [][Testing /\ call.observed => call'.processed = call.processed]_vars
    /\ [](Testing /\ call.exitRequested
            => Len(call.processed) <= call.begunAtRequest)
    /\ [](Testing /\ call.pc = "done" /\ call.event \in KnownEvents
            => /\ call.result = "True"
               /\ Len(call.dumped) = Len(call.processed)
               /\ \A i \in DOMAIN call.dumped :
                     call.dumped[i].origin = call.processed[i]
               /\ call.exitRequested
                     => Len(call.processed) = call.begunAtRequest)

\* the request arrived while the first of several origins was in work: that
\* origin was completed and dumped, the others were not begun
C24_Witness ==
    /\ Testing
    /\ call.pc = "done"
    /\ call.observed
    /\ call.begunAtRequest = 1
    /\ Len(call.dumped) = 1
    /\ Len(call.queue) >= 2
    /\ call.dumped[1].w.new_picks # EmptyDict

(***************************************************************************)
(* Properties of the relocator                                             *)
(***************************************************************************)
\* the run of the relocator is over
RelocatorOver == call.op = "relocator" /\ call.result # "none"

\* C27: the relocator sends a relocated origin for an event only if
\* relocation gave a result and the test option is off; for an event without
\* a relocation result, and for every event in test mode, nothing is sent
\* and the event IDs after it are processed as well.
C27_SendsOnlyAcceptedAndGoesOn ==
    /\ call.op = "relocator" =>
          \A i \in DOMAIN call.sent :
              call.sent[i] \in call.relocatable /\ ~call.test
    /\ RelocatorOver =>
          \A i \in DOMAIN call.eventIDs :
              (call.eventIDs[i] \notin call.relocatable \/ call.test)
                  => /\ i \in DOMAIN call.outcome
                     /\ call.outcome[i] \in {"none", "test"}
                     /\ \A j \in DOMAIN call.eventIDs :
                           j > i => j \in DOMAIN call.outcome

(***************************************************************************)
(* Properties of the three pick dictionaries of a workspace                *)
(***************************************************************************)
\* C31: in every workspace, between the passes, the pick IDs of new_picks
\* are pick IDs of attempted_picks and the pick IDs of attempted_picks are
\* pick IDs of all_picks.
C31_NewInAttemptedInAll ==
    \A e \in DOMAIN workspaces :
        /\ Keys(workspaces[e].new_picks) \subseteq
              Keys(workspaces[e].attempted_picks)
        /\ Keys(workspaces[e].attempted_picks) \subseteq
              Keys(workspaces[e].all_picks)

\* a later pass of a workspace has ended with each of the three dictionaries
\* strictly larger than the one before it
C31_Witness ==
    /\ pc = "cleanup"
    /\ passKind = "processed"
    /\ \E e \in DOMAIN workspaces :
        /\ Keys(workspaces[e].new_picks) # {}
        /\ Keys(workspaces[e].attempted_picks)
              \ Keys(workspaces[e].new_picks) # {}
        /\ Keys(workspaces[e].all_picks)
              \ Keys(workspaces[e].attempted_picks) # {}

(***************************************************************************)
(* Properties of pendingEvents                                             *)
(***************************************************************************)
Pending(e) == e \in DOMAIN pendingEvents

\* the step that pops the entry of e and calls processEvent with it
HandedToProcessEvent(e) ==
    /\ pc = "process"
    /\ Head(drainQueue) = e
    /\ passKind' # "none"

\* C32: while the timer keeps firing, every entry of pendingEvents leaves
\* pendingEvents at some later time, and an entry leaves pendingEvents only
\* in the step that hands it to processEvent.
C32_NoNotificationLost ==
    /\ \A e \in Events : Pending(e) ~> ~Pending(e)
    /\ [][\A e \in Events :
            Pending(e) /\ ~Pending(e)' => HandedToProcessEvent(e)]_vars

(***************************************************************************)
(* Properties of the requests to the record stream                         *)
(***************************************************************************)
\* C33: no stream is added to the record stream by two of the
\* _loadWaveformsForPicks calls made for a workspace, be they calls of one
\* pass or of different passes.
C33_RequestedAtMostOnce ==
    call.op = "processEvent" =>
        \A i, j \in DOMAIN call.history :
            i # j => AddedStreams(call.history[i].request)
                        \cap AddedStreams(call.history[j].request) = {}

(***************************************************************************)
(* Properties of App.cleanup                                               *)
(***************************************************************************)
\* C34: whenever processEvent has come to its cleanup call, every workspace
\* of the registry has an origin set, so that cleanup does not raise.
C34_CleanupNeverRaises ==
    pc = "cleanup" =>
        /\ \A e \in DOMAIN workspaces : workspaces[e].origin # None
        /\ ~CleanupRaises(workspaces)

(***************************************************************************)
(* Properties of dbutil.loadPicksForOrigin without manual picks            *)
(***************************************************************************)
\* C35: a call of loadPicksForOrigin with keepManualPicks false does not
\* raise, and the arrivals of the origin afterwards are arrivals of picks
\* taken from the groups, none of them an arrival the origin had before.
C35_WithoutManualPicksCompletes ==
    /\ call.op = "loadPicksForOriginKeeping"
    /\ call.done
    /\ ~call.keepManualPicks
    => /\ ~call.result.raised
       /\ \A i \in DOMAIN call.result.arrivals :
            /\ \E j \in DOMAIN call.result.chosen :
                 call.result.chosen[j].id = call.result.arrivals[i].pickID
            /\ \A k \in DOMAIN call.origin.arrivals :
                 call.origin.arrivals[k].pickID
                    # call.result.arrivals[i].pickID

============================================================================
